---- MODULE Spec2Model ----
(***************************************************************************)
(* Model of the callchecker status-driven pipeline.                        *)
(*                                                                         *)
(*   Spec      the three service loops over the relational store and the   *)
(*             local download directories: acquisition (bitrix24/main.py), *)
(*             recognition (dialogue_recognition.py) and analysis          *)
(*             (dialog_analysis.py).                                       *)
(*   SpecPlan  the dedup planner of download_calls_for_portal as a pure    *)
(*             function of the remote, store and local-file inputs.        *)
(*   SpecAgg   the entity roll-up passes (_update_entity_data and          *)
(*             aggregate_entity_summaries / _update_entity_summary).       *)
(*   SpecSem   the three semaphore-guarded stages with their retry loops.  *)
(*   SpecLive  Spec under fair scheduling of the loops.                    *)
(*   SpecDialog     build_dialog_from_response, status of process_record.  *)
(*   SpecMerge      update of one criterion and of one entity summary.     *)
(*   SpecLink       users and entities a call row refers to (steps 3-8).   *)
(*   SpecLoops      control flow of the three service loops.               *)
(*   SpecRecognize  the retry loop around process_record.                  *)
(*   SpecGather     the tasks of aggregate_entity_summaries.               *)
(*   SpecWrite      upload_full_data_from_dict for one table.              *)
(*   SpecUpload     the transaction of upload_recognized_dialogs.          *)
(*                                                                         *)
(* Identifiers and file names are sequences of tokens, so that the prefix  *)
(* and extension conversions of the code are computed, not assumed.        *)
(***************************************************************************)
EXTENDS Integers, Sequences, FiniteSets, TLC

VARIABLES
    \* ---- Spec: configuration, store, local files
    cfg,        \* bitrix_portals.json: [kind, days]
    store,      \* [Portals -> set of rows [id, status, meta]]
    files,      \* [Portals -> set of file names in downloads/<portal>]
    \* ---- Spec: acquisition loop (bitrix24/main.py)
    acq_pc,     \* position of the loop
    acq_i,      \* index of the portal the running step is at
    records,    \* step 1 result: [Portals -> set of store ids]
    batch,      \* the dict handed from step to step: [Portals -> [present, recs]]: the portals in the dict and their records
    stats,      \* step 8 result: [Portals -> [present, total, updated, rate]]
    cycle,      \* number of the running cycle
    hist,       \* observation of the download stage, for the claims
    \* ---- Spec: recognition loop (dialogue_recognition.py)
    rec_pc, rec_data,
    \* ---- Spec: analysis loop (dialog_analysis.py)
    an_pc, an_data,
    \* ---- SpecPlan
    plan,
    \* ---- SpecAgg
    agg,
    \* ---- SpecSem, SpecGather
    sem,
    \* ---- SpecDialog, SpecMerge, SpecRecognize: input and output of a function
    pure,
    \* ---- SpecLink: steps 3-8 of one cycle for one portal, with the users and entities tables
    link,
    \* ---- SpecLoops: the three service loops, one cycle at a time
    loops,
    \* ---- SpecWrite, SpecUpload: a write-back to the store, step by step
    wb

pipeVars == <<cfg, store, files, acq_pc, acq_i, records, batch, stats, cycle, hist,
              rec_pc, rec_data, an_pc, an_data>>
vars == <<cfg, store, files, acq_pc, acq_i, records, batch, stats, cycle, hist,
          rec_pc, rec_data, an_pc, an_data, plan, agg, sem, pure, link, loops, wb>>

-----------------------------------------------------------------------------
(* Bounds *)

\* acquisition cycles run by the model
MaxCycles == 2

-----------------------------------------------------------------------------
(* Identifiers, file names, paths *)

Portals == {"p1", "p2"}

CALL == "call_"
MP3 == ".mp3"

\* call ids as the portal API returns them (call['ID'])
RawIds == {<<"1">>, <<"2">>}

\* what voximplant.statistic.get holds for each portal, with a recording URL
Remote(p) == IF p = "p1" THEN {<<"1">>} ELSE {<<"2">>}

\* age of a call in whole days (today = 0)
CallAge(raw) == IF raw = <<"1">> THEN 5 ELSE 1

StartsWithCall(id) == Len(id) > 0 /\ Head(id) = CALL

\* str.replace(tok, ''): every occurrence goes
ReplaceAll(s, tok) == SelectSeq(s, LAMBDA t : t # tok)

add_call_prefix(id) == IF StartsWithCall(id) THEN id ELSE <<CALL>> \o id

\* a comparison that keeps the prefix
remove_call_prefix_Keep(id) == id

remove_call_prefix(id) == IF StartsWithCall(id) THEN ReplaceAll(id, CALL) ELSE id

\* download_call_by_id: os.path.join(download_dir, f"{call_id}.mp3")
DownloadFileName(call_id) == call_id \o <<MP3>>

\* process_audio_files_async: f"bitrix24/downloads/{portal_name}/{record_id}.mp3"
LookupFileName(record_id) == record_id \o <<MP3>>

EndsWithMp3(fn) == Len(fn) > 0 /\ fn[Len(fn)] = MP3

\* download_calls_for_portal: ids of the .mp3 files of the portal's directory
LocalFileIds(dir) ==
    { remove_call_prefix(ReplaceAll(fn, MP3)) : fn \in { f \in dir : EndsWithMp3(f) } }

-----------------------------------------------------------------------------
(* Configuration: days_back *)

\* db_fetcher.py: config.get('default_settings', {}).get('days_back', 3)
FetcherFallbackDaysBack == 3
\* bulk_call_downloader.py: config.get('default_settings', {}).get('days_back', 7)
DownloaderFallbackDaysBack == 7

CfgKinds == {"explicit", "default", "neither"}
CfgDays == {7}

Configs == { c \in [kind : CfgKinds, days : CfgDays \cup {0}] :
                (c.kind = "neither") <=> (c.days = 0) }

\* fetch_data_with_portal_settings: portal_days_map.get(table, default_days_back)
StoreDaysBack(c) == IF c.kind = "neither" THEN FetcherFallbackDaysBack ELSE c.days

\* download_missing_calls_from_records: portal_config.get('days_back', default_days_back)
RemoteDaysBack(c) == IF c.kind = "neither" THEN DownloaderFallbackDaysBack ELSE c.days

\* WHERE date >= CURRENT_DATE - INTERVAL 'N days'
InStoreWindow(c, raw) == CallAge(raw) <= StoreDaysBack(c)

\* get_portal_calls: FILTER[>CALL_START_DATE] = today - (days_back - 1)
InRemoteWindow(c, raw) == CallAge(raw) <= RemoteDaysBack(c) - 1

get_portal_calls(c, p) == { raw \in Remote(p) : InRemoteWindow(c, raw) }

-----------------------------------------------------------------------------
(* Store rows and statuses *)

Statuses == {"uploaded", "recognized", "empty", "fixed", "ready"}

\* position on the lifecycle graph uploaded -> {recognized | empty} -> fixed -> ready
Rank(st) == CASE st = "uploaded" -> 0
              [] st = "recognized" -> 1
              [] st = "empty" -> 1
              [] st = "fixed" -> 2
              [] st = "ready" -> 3

RowIds(rows) == { r.id : r \in rows }

RowsWithId(rows, id) == { r \in rows : r.id = id }

\* INSERT ... ON CONFLICT (id) DO UPDATE SET ..., audio_metadata = EXCLUDED.audio_metadata,
\* status = 'uploaded'
UpsertRow(rows, rec) ==
    { r \in rows : r.id # rec.id }
        \cup { [id |-> rec.id, status |-> "uploaded", meta |-> rec.meta] }

RECURSIVE UpsertAll(_, _)
UpsertAll(rows, recs) ==
    IF recs = {} THEN rows
    ELSE LET rec == CHOOSE x \in recs : TRUE
         IN UpsertAll(UpsertRow(rows, rec), recs \ {rec})

\* upsert_records_to_db: the rows after the call and the list it returns;
\* a store error rolls the whole batch back and returns []
upsert_records_to_db(rows, recs, dbOk) ==
    IF recs = {} THEN [rows |-> rows, updated |-> {}]
    ELSE IF dbOk THEN [rows |-> UpsertAll(rows, recs), updated |-> recs]
    ELSE [rows |-> rows, updated |-> {}]

\* update_records_in_database: db_update_stats of one portal. success_rate is
\* len(updated) / len(records), kept as the fraction <<num, den>>; 0 for no records
db_update_stats(recs, updated) ==
    [present |-> TRUE,
     total |-> Cardinality(recs),
     updated |-> Cardinality(updated),
     rate |-> IF recs = {} THEN <<0, 1>> ELSE <<Cardinality(updated), Cardinality(recs)>>]

\* success_rate == 1.0
RateIsOne(rate) == rate[1] = rate[2]

\* a cleanup that does not look at success_rate
ShouldClean_Always(st) == TRUE

\* cleanup_audio_files_after_db_upload: the decision for one portal
ShouldClean(st) == RateIsOne(st.rate)

\* clean_audio_files_for_portal: every file of the directory is removed
clean_audio_files_for_portal(dir) == {}

-----------------------------------------------------------------------------
(* Download and upload units with their retry loops *)

\* retries=3 of download_missing_calls_from_records and process_audio_files_async
Retries == 3

\* one download_call_by_id attempt: the file is complete, nothing was written,
\* or the stream broke after the file had been opened for writing
DlOutcomes == {"ok", "none", "partial"}

\* download_call_with_retry: stops at the first attempt that returns a path.
\* result: a path was returned; file: a file is left at the download path
RECURSIVE DlRetry(_, _, _)
DlRetry(attempts, i, fileThere) ==
    IF i > Len(attempts) THEN [result |-> FALSE, file |-> fileThere]
    ELSE IF attempts[i] = "ok" THEN [result |-> TRUE, file |-> TRUE]
    ELSE DlRetry(attempts, i + 1, fileThere \/ attempts[i] = "partial")

download_call_with_retry(attempts, fileThere) == DlRetry(attempts, 1, fileThere)

\* process_single_audio_file: the upload loop breaks at the first success;
\* uri stays None when every attempt raised
RECURSIVE UpRetry(_, _)
UpRetry(attempts, i) ==
    IF i > Len(attempts) THEN FALSE
    ELSE IF attempts[i] THEN TRUE
    ELSE UpRetry(attempts, i + 1)

\* the audio_metadata process_single_audio_file returns: "ok" carries the uri,
\* "error" is the error marker
process_single_audio_file(probeOk, attempts) ==
    IF ~probeOk THEN "error"
    ELSE IF UpRetry(attempts, 1) THEN "ok"
    ELSE "error"

-----------------------------------------------------------------------------
(* Dedup planner: download_calls_for_portal *)

Range(seq) == { seq[i] : i \in DOMAIN seq }

RECURSIVE SetToSeq(_)
SetToSeq(S) == IF S = {} THEN <<>>
               ELSE LET x == CHOOSE y \in S : TRUE IN <<x>> \o SetToSeq(S \ {x})

\* download_missing_calls_from_records: call_ids, the store ids of step 1 with the
\* call_ prefix removed; download_calls_for_portal makes a set of them
existing_ids_set(storeIds) == { remove_call_prefix(id) : id \in storeIds }

\* [call for call in all_bitrix_calls if call['id'] not in existing_ids_set]
new_calls(all_bitrix_calls, storeIds) ==
    SelectSeq(all_bitrix_calls, LAMBDA c : c \notin existing_ids_set(storeIds))

\* [call for call in new_calls if call['id'] not in downloaded_files]
final_calls(all_bitrix_calls, storeIds, dir) ==
    SelectSeq(new_calls(all_bitrix_calls, storeIds), LAMBDA c : c \notin LocalFileIds(dir))

\* the calls of new_calls whose id is in downloaded_files
already_downloaded(all_bitrix_calls, storeIds, dir) ==
    SelectSeq(new_calls(all_bitrix_calls, storeIds), LAMBDA c : c \in LocalFileIds(dir))

-----------------------------------------------------------------------------
(* Acquisition loop: bitrix24/main.py *)

\* the order in which the steps walk the portals
PortalOrder == <<"p1", "p2">>

CurPortal == PortalOrder[acq_i]

\* the running step moves to the next portal, or the loop to the next step
AcqAdvance(nextStep) ==
    IF acq_i < Len(PortalOrder)
    THEN acq_pc' = acq_pc /\ acq_i' = acq_i + 1
    ELSE acq_pc' = nextStep /\ acq_i' = 1

\* a portal that is not a key of the dict
NoBatch == [present |-> FALSE, recs |-> {}]
NoStats == [present |-> FALSE, total |-> 0, updated |-> 0, rate |-> <<0, 1>>]

NoHist == [attempted |-> {}, failed |-> {}, upFailed |-> {}, enumerated |-> {},
           prevFailed |-> {}, prevClean |-> FALSE]

\* fetch_data_with_portal_settings(status=None, fields=["id"]): per table, the ids
\* of the rows whose date lies in the portal's store window
fetch_data_with_portal_settings(c, st) ==
    [p \in Portals |->
        { r.id : r \in { x \in st[p] : InStoreWindow(c, remove_call_prefix(x.id)) } }]

\* Step 1
AcqFetch ==
    /\ acq_pc = "fetch"
    /\ records' = fetch_data_with_portal_settings(cfg, store)
    /\ batch' = [p \in Portals |-> NoBatch]
    /\ stats' = [p \in Portals |-> NoStats]
    /\ hist' = [hist EXCEPT !.attempted = {}, !.failed = {}, !.upFailed = {},
                            !.enumerated = {}]
    /\ acq_pc' = "download"
    /\ acq_i' = 1
    /\ UNCHANGED <<cfg, store, files, cycle>>
    /\ UNCHANGED <<rec_pc, rec_data, an_pc, an_data, plan, agg, sem, pure, link, loops, wb>>

\* Step 2 for one portal: download_calls_for_portal and the wrapping of its result
\* by download_missing_calls_from_records
AcqDownload ==
    /\ acq_pc = "download"
    /\ LET p == CurPortal IN
       \E enumOk \in BOOLEAN :
         LET all_bitrix_calls == IF enumOk THEN SetToSeq(get_portal_calls(cfg, p)) ELSE <<>>
             fc == Range(final_calls(all_bitrix_calls, records[p], files[p]))
             ad == Range(already_downloaded(all_bitrix_calls, records[p], files[p]))
         IN \E att \in [fc -> [1..Retries -> DlOutcomes]] :
              LET res == [c \in fc |->
                             download_call_with_retry(att[c], DownloadFileName(c) \in files[p])]
                  newly_downloaded == { c \in fc : res[c].result }
                  all_available_calls == ad \cup newly_downloaded
              IN /\ files' = [files EXCEPT ![p] =
                                 @ \cup { DownloadFileName(c) : c \in { x \in fc : res[x].file } }]
                 /\ batch' = [batch EXCEPT ![p] =
                                 IF all_available_calls = {} THEN NoBatch
                                 ELSE [present |-> TRUE,
                                       recs |-> { [id |-> add_call_prefix(c), meta |-> "none"] :
                                                     c \in all_available_calls }]]
                 /\ hist' = [hist EXCEPT
                                 !.attempted = @ \cup { <<p, c>> : c \in fc },
                                 !.failed = @ \cup { <<p, c>> : c \in fc \ newly_downloaded },
                                 !.enumerated = @ \cup { <<p, c>> : c \in Range(all_bitrix_calls) }]
    /\ AcqAdvance("audio")
    /\ UNCHANGED <<cfg, store, records, stats, cycle>>
    /\ UNCHANGED <<rec_pc, rec_data, an_pc, an_data, plan, agg, sem, pure, link, loops, wb>>

\* Step 7 for one portal: process_audio_files_async
AcqAudio ==
    /\ acq_pc = "audio"
    /\ LET p == CurPortal IN
       IF ~batch[p].present
       THEN UNCHANGED <<batch, hist>>
       ELSE LET found == { r \in batch[p].recs : LookupFileName(r.id) \in files[p] }
            IN \E probe \in [found -> BOOLEAN], att \in [found -> [1..Retries -> BOOLEAN]] :
                 LET metaOf(r) == IF r \in found
                                  THEN process_single_audio_file(probe[r], att[r])
                                  ELSE "error"
                 IN /\ batch' = [batch EXCEPT ![p].recs =
                                    { [id |-> r.id, meta |-> metaOf(r)] : r \in batch[p].recs }]
                    /\ hist' = [hist EXCEPT !.upFailed = @ \cup
                                    { <<p, r.id>> : r \in { x \in found :
                                          probe[x] /\ ~UpRetry(att[x], 1) } }]
    /\ AcqAdvance("upsert")
    /\ UNCHANGED <<cfg, store, files, records, stats, cycle>>
    /\ UNCHANGED <<rec_pc, rec_data, an_pc, an_data, plan, agg, sem, pure, link, loops, wb>>

\* Step 8 for one portal: update_records_in_database
AcqUpsert ==
    /\ acq_pc = "upsert"
    /\ LET p == CurPortal IN
       IF ~batch[p].present
       THEN UNCHANGED <<store, stats>>
       ELSE \E dbOk \in BOOLEAN :
              LET res == upsert_records_to_db(store[p], batch[p].recs, dbOk)
              IN /\ store' = [store EXCEPT ![p] = res.rows]
                 /\ stats' = [stats EXCEPT ![p] = db_update_stats(batch[p].recs, res.updated)]
    /\ AcqAdvance("cleanup")
    /\ UNCHANGED <<cfg, files, records, batch, cycle, hist>>
    /\ UNCHANGED <<rec_pc, rec_data, an_pc, an_data, plan, agg, sem, pure, link, loops, wb>>

\* Step 9 for one portal: cleanup_audio_files_after_db_upload
AcqCleanup ==
    /\ acq_pc = "cleanup"
    /\ LET p == CurPortal IN
       IF stats[p].present /\ ShouldClean(stats[p])
       THEN files' = [files EXCEPT ![p] = clean_audio_files_for_portal(@)]
       ELSE UNCHANGED files
    /\ AcqAdvance("sleep")
    /\ UNCHANGED <<cfg, store, records, batch, stats, cycle, hist>>
    /\ UNCHANGED <<rec_pc, rec_data, an_pc, an_data, plan, agg, sem, pure, link, loops, wb>>

\* asyncio.sleep(delay), then the next cycle
AcqSleep ==
    /\ acq_pc = "sleep"
    /\ cycle < MaxCycles
    /\ cycle' = cycle + 1
    /\ acq_pc' = "fetch"
    /\ hist' = [hist EXCEPT
                    !.prevFailed = hist.failed,
                    !.prevClean = /\ hist.failed = {}
                                  /\ \A p \in Portals : \A c \in get_portal_calls(cfg, p) :
                                        <<p, c>> \in hist.enumerated]
    /\ UNCHANGED <<cfg, store, files, acq_i, records, batch, stats>>
    /\ UNCHANGED <<rec_pc, rec_data, an_pc, an_data, plan, agg, sem, pure, link, loops, wb>>

-----------------------------------------------------------------------------
(* Status-gated reads and writes shared by the recognition and analysis loops *)

\* fetch_data(status=...): per table, the rows with that status
fetch_data(st, status) == [p \in Portals |-> { r \in st[p] : r.status = status }]

NoData == [p \in Portals |-> {}]

\* upload_recognized_dialogs: UPDATE t SET ..., status = v.status WHERE t.id = v.id
\* for every table in one transaction; a store error rolls all of it back
UpdateStatus(rows, recs) ==
    { IF \E d \in recs : d.id = r.id
      THEN [r EXCEPT !.status = (CHOOSE d \in recs : d.id = r.id).status]
      ELSE r : r \in rows }

upload_recognized_dialogs(st, data, dbOk) ==
    IF dbOk THEN [p \in Portals |-> UpdateStatus(st[p], data[p])] ELSE st

-----------------------------------------------------------------------------
(* Recognition loop: dialogue_recognition.py *)

\* what the recogniser gives for a record: utterances with text, a response whose
\* reconstructed transcript is empty, or no response (it raised or returned nothing)
RecOutcomes == {"text", "blank", "fail"}

\* process_record without the metadata check
process_record_Unchecked(r, out) ==
    IF out = "fail" THEN {}
    ELSE IF out = "blank" THEN { [id |-> r.id, status |-> "empty"] }
    ELSE { [id |-> r.id, status |-> "recognized"] }

\* process_record: None (no entry) for incomplete metadata or no response;
\* otherwise the record with status 'empty' or 'recognized'
process_record(r, out) ==
    IF r.meta # "ok" THEN {}
    ELSE IF out = "fail" THEN {}
    ELSE IF out = "blank" THEN { [id |-> r.id, status |-> "empty"] }
    ELSE { [id |-> r.id, status |-> "recognized"] }

\* process_data up to the write-back: fetch_data('uploaded') and process_and_store_dialogs
RecFetch ==
    /\ rec_pc = "fetch"
    /\ LET data == fetch_data(store, "uploaded")
       IN \E out \in [UNION { data[p] : p \in Portals } -> RecOutcomes] :
            rec_data' = [p \in Portals |->
                            UNION { process_record(r, out[r]) : r \in data[p] }]
    /\ rec_pc' = "upload"
    /\ UNCHANGED <<cfg, store, files, acq_pc, acq_i, records, batch, stats, cycle, hist,
                   an_pc, an_data, plan, agg, sem, pure, link, loops, wb>>

\* upload_recognized_dialogs(updated_data_records, default_status='recognized'),
\* then the sleep of main (30 s after an error)
RecUpload ==
    /\ rec_pc = "upload"
    /\ \E dbOk \in BOOLEAN : store' = upload_recognized_dialogs(store, rec_data, dbOk)
    /\ rec_data' = NoData
    /\ rec_pc' = "fetch"
    /\ UNCHANGED <<cfg, files, acq_pc, acq_i, records, batch, stats, cycle, hist,
                   an_pc, an_data, plan, agg, sem, pure, link, loops, wb>>

-----------------------------------------------------------------------------
(* Analysis loop: dialog_analysis.py *)

\* process_dialogs (dialog_fixer_all): the records that come back, marked 'fixed'
process_dialogs(recs, kept) == { [id |-> r.id, status |-> "fixed"] : r \in recs \cap kept }

\* the data a record carries after classification and criteria analysis
DataKinds == {"none", "nolist", "partial", "full"}

\* upload_records_from_dict: status is set only for non-empty data whose criteria
\* is a list with name, text and evaluation in every entry
SetsStatus(kind) == kind = "full"

upload_records_from_dict(st, data, status, dbOk) ==
    IF dbOk
    THEN [p \in Portals |->
            UpdateStatus(st[p], { [id |-> d.id, status |-> status] :
                                     d \in { x \in data[p] : SetsStatus(x.kind) } })]
    ELSE st

\* Steps 1-2: fetch_data('recognized') and process_dialogs
AnFetchRecognized ==
    /\ an_pc = "s1"
    /\ LET data == fetch_data(store, "recognized")
       IN \E kept \in SUBSET UNION { data[p] : p \in Portals } :
            an_data' = [p \in Portals |-> process_dialogs(data[p], kept)]
    /\ an_pc' = "s3"
    /\ UNCHANGED <<cfg, store, files, acq_pc, acq_i, records, batch, stats, cycle, hist,
                   rec_pc, rec_data, plan, agg, sem, pure, link, loops, wb>>

\* Step 3: upload_recognized_dialogs(processed_records, default_status='fixed');
\* an error restarts the loop (continue)
AnUploadFixed ==
    /\ an_pc = "s3"
    /\ \E dbOk \in BOOLEAN :
         /\ store' = upload_recognized_dialogs(store, an_data, dbOk)
         /\ an_pc' = IF dbOk THEN "s4" ELSE "s1"
    /\ an_data' = NoData
    /\ UNCHANGED <<cfg, files, acq_pc, acq_i, records, batch, stats, cycle, hist,
                   rec_pc, rec_data, plan, agg, sem, pure, link, loops, wb>>

\* Steps 4-8: fetch_data('fixed'), classification, criteria analysis, aggregation;
\* an error in any of them restarts the loop (continue)
AnFetchFixed ==
    /\ an_pc = "s4"
    /\ LET data == fetch_data(store, "fixed")
       IN \/ \E kind \in [UNION { data[p] : p \in Portals } -> DataKinds] :
               /\ an_data' = [p \in Portals |->
                                 { [id |-> r.id, kind |-> kind[r]] : r \in data[p] }]
               /\ an_pc' = "s9"
          \/ /\ an_data' = NoData
             /\ an_pc' = "s1"
    /\ UNCHANGED <<cfg, store, files, acq_pc, acq_i, records, batch, stats, cycle, hist,
                   rec_pc, rec_data, plan, agg, sem, pure, link, loops, wb>>

\* Step 9: upload_full_data_from_dict(..., status='ready'), then the sleep
AnUploadReady ==
    /\ an_pc = "s9"
    /\ \E dbOk \in BOOLEAN : store' = upload_records_from_dict(store, an_data, "ready", dbOk)
    /\ an_data' = NoData
    /\ an_pc' = "s1"
    /\ UNCHANGED <<cfg, files, acq_pc, acq_i, records, batch, stats, cycle, hist,
                   rec_pc, rec_data, plan, agg, sem, pure, link, loops, wb>>

-----------------------------------------------------------------------------
(* Spec: the three loops *)

\* files of the "call_<id>.mp3" form that earlier runs may have left in the
\* download directories (download_calls_for_portal reads both name forms)
PrefixedFiles(p) == { LookupFileName(add_call_prefix(c)) : c \in Remote(p) }

IdlePlan == [phase |-> "idle"]
IdleAgg == [phase |-> "idle"]
IdleSem == [phase |-> "idle"]
IdlePure == [phase |-> "idle"]
IdleLink == [phase |-> "idle"]
IdleLoops == [phase |-> "idle"]
IdleWb == [phase |-> "idle"]

Init ==
    /\ cfg \in Configs
    /\ store = [p \in Portals |-> {}]
    /\ files \in { f \in [Portals -> SUBSET UNION { PrefixedFiles(p) : p \in Portals }] :
                       \A p \in Portals : f[p] \subseteq PrefixedFiles(p) }
    /\ acq_pc = "fetch"
    /\ acq_i = 1
    /\ records = [p \in Portals |-> {}]
    /\ batch = [p \in Portals |-> NoBatch]
    /\ stats = [p \in Portals |-> NoStats]
    /\ cycle = 1
    /\ hist = NoHist
    /\ rec_pc = "fetch"
    /\ rec_data = NoData
    /\ an_pc = "s1"
    /\ an_data = NoData
    /\ plan = IdlePlan
    /\ agg = IdleAgg
    /\ sem = IdleSem
    /\ pure = IdlePure
    /\ link = IdleLink
    /\ loops = IdleLoops
    /\ wb = IdleWb

Next ==
    \/ AcqFetch
    \/ AcqDownload
    \/ AcqAudio
    \/ AcqUpsert
    \/ AcqCleanup
    \/ AcqSleep
    \/ RecFetch
    \/ RecUpload
    \/ AnFetchRecognized
    \/ AnUploadFixed
    \/ AnFetchFixed
    \/ AnUploadReady

Spec == Init /\ [][Next]_vars

-----------------------------------------------------------------------------
(* Claims checked under Spec *)

\* C1: no write replaces a record's status by an earlier one on
\* uploaded -> {recognized | empty} -> fixed -> ready.
C1_StatusNeverRegresses ==
    [][\A p \in Portals : \A old \in store[p] : \A new \in store'[p] :
          new.id = old.id => Rank(new.status) >= Rank(old.status)]_vars

\* C3: when the previous cycle enumerated every remote call and none of its
\* downloads failed, the next cycle attempts no download and the store holds no
\* two rows with one call id.
C3_SecondCycleIdle ==
    (cycle >= 2 /\ acq_pc # "fetch" /\ hist.prevClean)
        => /\ hist.attempted = {}
           /\ \A p \in Portals : \A r \in store[p] :
                 Cardinality(RowsWithId(store[p], r.id)) = 1

\* C4: a file leaves a portal's directory only in the cleanup step of that portal
\* and only when every record of its batch was updated (success_rate = 1.0); the
\* cleanup of one portal leaves the other directories as they are.
C4_CleanupGated ==
    [][\A p \in Portals :
          (\E f \in files[p] : f \notin files'[p])
              => /\ acq_pc = "cleanup"
                 /\ p = CurPortal
                 /\ stats[p].present
                 /\ stats[p].total > 0
                 /\ stats[p].updated = stats[p].total]_vars

\* C4 witness: the cycle cleaned p1 (its batch was committed) and kept the files
\* of p2, whose batch was rolled back.
C4_Witness ==
    /\ acq_pc = "sleep"
    /\ stats["p1"].present /\ stats["p1"].updated = stats["p1"].total
    /\ files["p1"] = {}
    /\ stats["p2"].present /\ stats["p2"].updated = 0
    /\ files["p2"] # {}

\* C8: a row written with status 'uploaded' is never that of a call whose upload
\* failed on every retry in the running cycle.
C8_FailedUploadNotStored ==
    [][\A p \in Portals : \A r \in store'[p] \ store[p] :
          r.status = "uploaded" => <<p, r.id>> \notin hist.upFailed]_vars

\* C9: a call whose download failed on every attempt is not in the cycle's result,
\* gets no store row, and is attempted again in the next cycle that enumerates it.
C9_AbsentFromResult ==
    \A x \in hist.failed : add_call_prefix(x[2]) \notin RowIds(batch[x[1]].recs)

C9_NoRowCreated ==
    \A p \in Portals : \A r \in store'[p] :
        r.id \notin RowIds(store[p]) => <<p, remove_call_prefix(r.id)>> \notin hist.failed

C9_RetriedNextCycle ==
    \A x \in hist.prevFailed : x \in hist.enumerated => x \in hist.attempted

\* C9, the three parts in one property over every step of the pipeline
C9_FailedDownloadRetried ==
    [][C9_AbsentFromResult' /\ C9_NoRowCreated /\ C9_RetriedNextCycle']_vars


\* C11: the value a bounded stage returns has an entry for every unit handed to
\* it: for every call of final_calls in the result of download_calls_for_portal,
\* for every fetched record in the result of process_and_store_dialogs.
C11_EveryUnitReported ==
    [][/\ \A x \in hist'.attempted \ hist.attempted :
             add_call_prefix(x[2]) \in RowIds(batch'[x[1]].recs)
       /\ (rec_pc = "fetch" /\ rec_pc' = "upload")
             => \A p \in Portals : \A r \in fetch_data(store, "uploaded")[p] :
                   r.id \in RowIds(rec_data'[p])]_vars

\* the 'uploaded' rows whose audio_metadata lacks a field the recogniser needs
IncompleteUploaded(p) == { r \in fetch_data(store, "uploaded")[p] : r.meta # "ok" }

\* C18: an 'uploaded' record with incomplete audio_metadata is skipped by the
\* recognition cycle: whatever the recogniser would answer, the record is not in
\* the cycle's result, and the write-back leaves every row that is not in the
\* result as it was.
C18_IncompleteMetadataSkipped ==
    [][/\ (rec_pc = "fetch" /\ rec_pc' = "upload")
            => \A p \in Portals : \A r \in IncompleteUploaded(p) :
                  r.id \notin RowIds(rec_data'[p])
       /\ (rec_pc = "upload" /\ rec_pc' = "fetch")
            => \A p \in Portals : \A r \in store[p] :
                  r.id \notin RowIds(rec_data[p]) => r \in store'[p]]_vars

\* a recognition cycle fetched an 'uploaded' row with incomplete metadata, left it
\* out of its result while recognising a row of the other portal, and the row is
\* still 'uploaded'
C18_Witness ==
    /\ rec_pc = "upload"
    /\ \E q \in Portals : rec_data[q] # {}
    /\ \E p \in Portals : \E r \in IncompleteUploaded(p) : r.id \notin RowIds(rec_data[p])

\* the call a local file belongs to
FileCall(fn) == remove_call_prefix(ReplaceAll(fn, MP3))

\* C25: the cleanup step deletes a local audio file only when the stored
\* audio_metadata of its call carries a storage URI.
C25_DeletedOnlyAfterUpload ==
    [][\A p \in Portals : \A fn \in files[p] \ files'[p] :
          \E r \in store[p] : r.meta = "ok" /\ remove_call_prefix(r.id) = FileCall(fn)]_vars

\* C26: when the upload stage runs, every call downloaded in this cycle has a
\* file at the path the stage looks up for its record.
C26_DownloadedCallFound ==
    acq_pc = "audio" =>
        \A p \in Portals : \A c \in Remote(p) :
            <<p, c>> \in hist.attempted \ hist.failed
                => LookupFileName(add_call_prefix(c)) \in files[p]

\* C27: for every configuration the store snapshot used for dedup covers every
\* call the remote enumeration can return, and a call that has a row in the store
\* is never selected for download again.
C27_StoreWindowCoversRemote ==
    [][/\ \A p \in Portals : \A c \in get_portal_calls(cfg, p) : InStoreWindow(cfg, c)
       /\ \A x \in hist'.attempted \ hist.attempted :
             add_call_prefix(x[2]) \notin RowIds(store[x[1]])]_vars

-----------------------------------------------------------------------------
(* SpecLive: the three loops under fair scheduling, with a recogniser and a store
   that succeed again and again *)

\* a recognition pass in which every record with complete metadata gets a response
RecRecognized ==
    /\ RecFetch
    /\ \A p \in Portals : \A r \in fetch_data(store, "uploaded")[p] :
          r.meta = "ok" => r.id \in RowIds(rec_data'[p])

\* a write-back of the recognition loop that commits
RecCommitted ==
    /\ RecUpload
    /\ store' = upload_recognized_dialogs(store, rec_data, TRUE)

\* await asyncio.sleep(delay) once the cycle counter of the model has reached
\* its bound: the acquisition loop goes on, the counter stays
AcqSleepOn ==
    /\ acq_pc = "sleep"
    /\ cycle = MaxCycles
    /\ acq_pc' = "fetch"
    /\ hist' = [hist EXCEPT
                    !.prevFailed = hist.failed,
                    !.prevClean = /\ hist.failed = {}
                                  /\ \A p \in Portals : \A c \in get_portal_calls(cfg, p) :
                                        <<p, c>> \in hist.enumerated]
    /\ UNCHANGED <<cfg, store, files, acq_i, records, batch, stats, cycle>>
    /\ UNCHANGED <<rec_pc, rec_data, an_pc, an_data, plan, agg, sem, pure, link, loops, wb>>

NextLive ==
    \/ AcqFetch
    \/ AcqDownload
    \/ AcqAudio
    \/ AcqUpsert
    \/ AcqCleanup
    \/ AcqSleep
    \/ AcqSleepOn
    \/ RecFetch
    \/ RecUpload
    \/ AnFetchRecognized
    \/ AnUploadFixed
    \/ AnFetchFixed
    \/ AnUploadReady

\* each loop is an asyncio task of its own process and keeps taking its steps
Fairness ==
    /\ WF_vars(AcqFetch) /\ WF_vars(AcqDownload) /\ WF_vars(AcqAudio)
    /\ WF_vars(AcqUpsert) /\ WF_vars(AcqCleanup) /\ WF_vars(AcqSleep) /\ WF_vars(AcqSleepOn)
    /\ WF_vars(RecFetch) /\ WF_vars(RecUpload)
    /\ WF_vars(AnFetchRecognized) /\ WF_vars(AnUploadFixed)
    /\ WF_vars(AnFetchFixed) /\ WF_vars(AnUploadReady)
    /\ SF_vars(RecRecognized) /\ SF_vars(RecCommitted)

\* the pipeline with days_back given for the portal, so that both windows agree
InitLive ==
    /\ Init
    /\ cfg.kind = "explicit"

SpecLive == InitLive /\ [][NextLive]_vars /\ Fairness

HasStatus(p, id, sts) == \E r \in store[p] : r.id = id /\ r.status \in sts

\* C30: every row stored with status 'uploaded' eventually has status
\* 'recognized' or 'empty'.
C30_UploadedEventuallyRecognized ==
    \A p \in Portals : \A c \in Remote(p) :
        HasStatus(p, add_call_prefix(c), {"uploaded"})
            ~> HasStatus(p, add_call_prefix(c), {"recognized", "empty"})

-----------------------------------------------------------------------------
(* SpecPlan: the dedup planner of download_calls_for_portal *)

\* number of distinct call ids the planner inputs are drawn from
PlanIds == 2

PlanRawIds == { <<ToString(n)>> : n \in 1..PlanIds }

\* the lists the remote enumeration may return: every order of every subset
PlanRemoteLists ==
    { q \in UNION { [1..n -> PlanRawIds] : n \in 0..PlanIds } :
          \A i, j \in DOMAIN q : i # j => q[i] # q[j] }

\* how a call is present in the store snapshot and in the directory
StoreForms == {"absent", "raw", "prefixed"}
FileForms == {"absent", "raw", "prefixed", "partfile"}

StoreIdOf(c, form) == IF form = "prefixed" THEN add_call_prefix(c) ELSE c

FileOf(c, form) ==
    IF form = "raw" THEN DownloadFileName(c)
    ELSE IF form = "prefixed" THEN LookupFileName(add_call_prefix(c))
    ELSE c \o <<".part">>

\* the state of every variable Spec owns while another specification runs
PipeIdle ==
    /\ cfg = [kind |-> "explicit", days |-> 7]
    /\ store = [p \in Portals |-> {}]
    /\ files = [p \in Portals |-> {}]
    /\ acq_pc = "fetch"
    /\ acq_i = 1
    /\ records = [p \in Portals |-> {}]
    /\ batch = [p \in Portals |-> NoBatch]
    /\ stats = [p \in Portals |-> NoStats]
    /\ cycle = 1
    /\ hist = NoHist
    /\ rec_pc = "fetch"
    /\ rec_data = NoData
    /\ an_pc = "s1"
    /\ an_data = NoData

InitPlan ==
    /\ PipeIdle
    /\ agg = IdleAgg
    /\ sem = IdleSem
    /\ pure = IdlePure
    /\ link = IdleLink
    /\ loops = IdleLoops
    /\ wb = IdleWb
    /\ \E R \in PlanRemoteLists, sf \in [PlanRawIds -> StoreForms],
          ff \in [PlanRawIds -> FileForms] :
          plan = [phase |-> "in",
                  all_bitrix_calls |-> R,
                  storeIds |-> { StoreIdOf(c, sf[c]) : c \in { x \in PlanRawIds : sf[x] # "absent" } },
                  dir |-> { FileOf(c, ff[c]) : c \in { x \in PlanRawIds : ff[x] # "absent" } },
                  inStore |-> { c \in PlanRawIds : sf[c] # "absent" },
                  onDisk |-> { c \in PlanRawIds : ff[c] \in {"raw", "prefixed"} },
                  download |-> <<>>,
                  satisfied |-> <<>>]

\* download_calls_for_portal up to the point where the downloads start
PlanRun ==
    /\ plan.phase = "in"
    /\ plan' = [plan EXCEPT
           !.phase = "out",
           !.download = final_calls(plan.all_bitrix_calls, plan.storeIds, plan.dir),
           !.satisfied = already_downloaded(plan.all_bitrix_calls, plan.storeIds, plan.dir)]
    /\ UNCHANGED <<pipeVars, agg, sem, pure, link, loops, wb>>

NextPlan == PlanRun

SpecPlan == InitPlan /\ [][NextPlan]_vars

\* C2: the planner selects exactly R \ S \ L for download and reports exactly
\* (R \cap L) \ S as already satisfied, whatever the order of the remote list.
C2_PlannerSets ==
    plan.phase = "out" =>
        LET R == Range(plan.all_bitrix_calls) IN
        /\ Range(plan.download) = (R \ plan.inStore) \ plan.onDisk
        /\ Range(plan.satisfied) = (R \cap plan.onDisk) \ plan.inStore
        /\ Len(plan.download) = Cardinality(Range(plan.download))
        /\ Len(plan.satisfied) = Cardinality(Range(plan.satisfied))

\* C2 witness: a plan with one call to download and one call already on disk
\* under the prefixed file name.
C2_Witness ==
    /\ plan.phase = "out"
    /\ Len(plan.download) = 1
    /\ Len(plan.satisfied) = 1
    /\ \E f \in plan.dir : StartsWithCall(f)


-----------------------------------------------------------------------------
(* SpecAgg: the entity roll-up passes of the analysis loop *)

\* records of one entity that one pass may bring for one criterion (or summary)
MaxInstances == 2

\* dialog_analysis.py: retries=3 for both roll-up passes
AggRetries == 3

CritIds == {1, 2}

\* texts are sequences of characters; an evaluation is None or <<hundredths>>
None == <<>>
SP == " "

RECURSIVE lstrip(_)
lstrip(t) == IF t # <<>> /\ Head(t) = SP THEN lstrip(Tail(t)) ELSE t

RECURSIVE rstrip(_)
rstrip(t) == IF t # <<>> /\ t[Len(t)] = SP THEN rstrip(SubSeq(t, 1, Len(t) - 1)) ELSE t

\* str.strip()
strip(t) == rstrip(lstrip(t))

RECURSIVE SeqSum(_)
SeqSum(q) == IF q = <<>> THEN 0 ELSE Head(q) + SeqSum(Tail(q))

\* round(sum / n) to the nearest unit, ties to the even one
RoundDiv(total, n) ==
    LET q == total \div n
        r == total % n
    IN IF 2 * r < n THEN q
       ELSE IF 2 * r > n THEN q + 1
       ELSE IF q % 2 = 0 THEN q ELSE q + 1

\* sum_texts.calculate_evaluation over a list of evaluations, in hundredths
calculate_evaluation(evaluations) ==
    LET valid == SelectSeq(evaluations, LAMBDA e : e # None)
    IN IF valid = <<>> THEN None
       ELSE <<RoundDiv(SeqSum([k \in DOMAIN valid |-> valid[k][1]]), Len(valid))>>

\* what one request to the LLM does: it raises, or its answer does not parse
\* (text_result ''), or it yields a merged text
LlmOutcomes == {"raise", "blank", "text"}
MERGED == <<"m">>

\* sum_texts.sum_text_blocks for one call
sum_text_blocks(pairs, out) ==
    LET evals == [k \in DOMAIN pairs |-> pairs[k].evaluation]
        non_empty_texts == SelectSeq([k \in DOMAIN pairs |-> pairs[k].text],
                                     LAMBDA t : t # <<>> /\ strip(t) # <<>>)
    IN IF pairs = <<>>
       THEN [raised |-> FALSE, called |-> FALSE, text_result |-> <<>>, evaluation_result |-> None]
       ELSE IF non_empty_texts = <<>>
       THEN [raised |-> FALSE, called |-> FALSE, text_result |-> <<>>,
             evaluation_result |-> calculate_evaluation(evals)]
       ELSE IF Len(non_empty_texts) = 1
       THEN [raised |-> FALSE, called |-> FALSE, text_result |-> non_empty_texts[1],
             evaluation_result |-> calculate_evaluation(evals)]
       ELSE IF out = "raise"
       THEN [raised |-> TRUE, called |-> TRUE, text_result |-> <<>>, evaluation_result |-> None]
       ELSE [raised |-> FALSE, called |-> TRUE,
             text_result |-> IF out = "blank" THEN <<>> ELSE MERGED,
             evaluation_result |-> calculate_evaluation(evals)]

\* the LLM during one merge: its first `fails` requests raise, the next one answers
LlmRuns == [fails : 0..AggRetries, blank : BOOLEAN]
LlmAt(llm, attempt) ==
    IF attempt <= llm.fails THEN "raise" ELSE IF llm.blank THEN "blank" ELSE "text"

\* the retry loop shared by _update_entity_data and _update_entity_summary:
\* for attempt in range(1, retries + 1)
RECURSIVE SumRetry(_, _, _)
SumRetry(pairs, llm, attempt) ==
    LET r == sum_text_blocks(pairs, LlmAt(llm, attempt))
        n == IF r.called THEN 1 ELSE 0
    IN IF ~r.raised
       THEN [ok |-> TRUE, text |-> r.text_result, evaluation |-> r.evaluation_result, calls |-> n]
       ELSE IF attempt < AggRetries
       THEN LET rest == SumRetry(pairs, llm, attempt + 1)
            IN [rest EXCEPT !.calls = @ + n]
       ELSE [ok |-> FALSE, text |-> <<>>, evaluation |-> None, calls |-> n]

\* index of the first entry of the list with this id, 0 when there is none
ExistingIndex(criteria, cid) ==
    IF \E k \in DOMAIN criteria : criteria[k].id = cid
    THEN CHOOSE k \in DOMAIN criteria :
             criteria[k].id = cid /\ \A j \in 1..(k - 1) : criteria[j].id # cid
    ELSE 0

\* pairs collected without looking at the texts
text_eval_pairs_All(criteria, cid, instances) ==
    LET k == ExistingIndex(criteria, cid)
    IN (IF k > 0 THEN <<[text |-> criteria[k].text, evaluation |-> criteria[k].evaluation]>>
        ELSE <<>>) \o instances

\* text_eval_pairs of _update_entity_data
text_eval_pairs(criteria, cid, instances) ==
    LET k == ExistingIndex(criteria, cid)
        own == IF k > 0 /\ criteria[k].text # <<>>
               THEN <<[text |-> criteria[k].text, evaluation |-> criteria[k].evaluation]>>
               ELSE <<>>
    IN own \o SelectSeq(instances, LAMBDA x : x.text # <<>>)

\* a write-back that appends whatever the list holds
WriteBack_Append(criteria, k, final_criterion) == Append(criteria, final_criterion)

\* _update_entity_data: existing_criterion.update(...) or existing_criteria.append(...)
WriteBack(criteria, k, final_criterion) ==
    IF k > 0 THEN [criteria EXCEPT ![k] = final_criterion]
    ELSE Append(criteria, final_criterion)

\* _update_entity_data: one iteration of the loop over criteria_to_process
update_criterion(criteria, cid, instances, llm) ==
    LET k == ExistingIndex(criteria, cid)
        pairs == text_eval_pairs(criteria, cid, instances)
        merged == SumRetry(pairs, llm, 1)
    IN IF pairs = <<>>
       THEN [criteria |-> criteria, exhausted |-> FALSE, calls |-> 0, npairs |-> 0]
       ELSE IF Len(pairs) = 1
       THEN [criteria |-> WriteBack(criteria, k, [id |-> cid, text |-> pairs[1].text,
                                                    evaluation |-> pairs[1].evaluation]),
             exhausted |-> FALSE, calls |-> 0, npairs |-> 1]
       ELSE [criteria |-> WriteBack(criteria, k, [id |-> cid, text |-> merged.text,
                                                    evaluation |-> merged.evaluation]),
             exhausted |-> ~merged.ok, calls |-> merged.calls, npairs |-> Len(pairs)]


\* aggregate_entity_summaries: summaries_to_aggregate of one entity
summaries_to_aggregate(entity_summary, record_summaries) ==
    LET own == IF entity_summary # <<>> /\ strip(entity_summary) # <<>>
               THEN <<strip(entity_summary)>> ELSE <<>>
        kept == SelectSeq(record_summaries, LAMBDA t : t # <<>> /\ strip(t) # <<>>)
    IN own \o [k \in DOMAIN kept |-> strip(kept[k])]

\* a fallback that writes the empty string
SummaryFallback_Empty(summaries) == <<>>

\* _update_entity_summary, retries exhausted:
\* summaries_to_aggregate[0] if summaries_to_aggregate else ""
SummaryFallback(summaries) == IF summaries # <<>> THEN summaries[1] ELSE <<>>

\* _update_entity_summary
update_entity_summary(entity_summary, summaries, llm) ==
    IF Len(summaries) <= 1
    THEN [summary |-> entity_summary, exhausted |-> FALSE, calls |-> 0]
    ELSE LET merged == SumRetry([k \in DOMAIN summaries |->
                                     [text |-> summaries[k], evaluation |-> None]], llm, 1)
         IN [summary |-> IF merged.ok THEN merged.text ELSE SummaryFallback(summaries),
             exhausted |-> ~merged.ok, calls |-> merged.calls]

\* aggregate_entity_summaries for one entity
aggregate_entity_summary(entity_summary, record_summaries, llm) ==
    LET summaries == summaries_to_aggregate(entity_summary, record_summaries)
    IN IF Len(summaries) > 1 THEN update_entity_summary(entity_summary, summaries, llm)
       ELSE IF Len(summaries) = 1
       THEN [summary |-> summaries[1], exhausted |-> FALSE, calls |-> 0]
       ELSE [summary |-> entity_summary, exhausted |-> FALSE, calls |-> 0]

\* ---- inputs of the passes
CritTexts == {<<>>, <<SP>>, <<"a">>}
CritEvals == {None, <<400>>}
InstancePairs ==
    {[text |-> <<>>, evaluation |-> None], [text |-> <<SP>>, evaluation |-> None],
     [text |-> <<"a">>, evaluation |-> <<400>>]}
InstanceLists == UNION { [1..n -> InstancePairs] : n \in 1..MaxInstances }

EntitySummaries == {<<>>, <<SP>>, <<"a">>, <<SP, "a">>, <<"a", SP>>}
RecordSummaries == {<<>>, <<SP>>, <<"b">>, <<"b", SP>>}
RecordSummaryLists == UNION { [1..n -> RecordSummaries] : n \in 0..MaxInstances }

\* the orders in which criteria_to_process may hold its keys
KeyOrders ==
    { q \in UNION { [1..n -> CritIds] : n \in 0..Cardinality(CritIds) } :
          \A a, b \in DOMAIN q : a # b => q[a] # q[b] }

NoDuplicateIds(criteria) ==
    \A a, b \in DOMAIN criteria : a # b => criteria[a].id # criteria[b].id

\* the data.criteria lists an entity may start with: no id twice
InitialCriteria ==
    { q \in UNION { [1..n -> [id : CritIds, text : CritTexts \ {<<SP>>}, evaluation : CritEvals]] :
                        n \in 0..Cardinality(CritIds) } : NoDuplicateIds(q) }

NoLast == [op |-> "none", cid |-> 0, existed |-> FALSE, exhausted |-> FALSE,
           calls |-> 0, npairs |-> 0, before |-> <<>>]

InitAgg ==
    /\ PipeIdle
    /\ plan = IdlePlan
    /\ sem = IdleSem
    /\ pure = IdlePure
    /\ link = IdleLink
    /\ loops = IdleLoops
    /\ wb = IdleWb
    /\ \E mode \in {"criteria", "summary"}, c \in InitialCriteria, sm \in EntitySummaries :
          agg = [phase |-> mode, mode |-> mode,
                 criteria |-> IF mode = "criteria" THEN c ELSE <<>>,
                 summary |-> IF mode = "summary" THEN sm ELSE <<>>,
                 todo |-> <<>>, last |-> NoLast]

\* summarize_entity_descriptions: criteria_to_process is built for the entity
AggBegin ==
    /\ agg.phase = "criteria"
    /\ agg.todo = <<>>
    /\ \E keys \in KeyOrders \ {<<>>} :
          agg' = [agg EXCEPT !.phase = "merge", !.todo = keys, !.last = NoLast]
    /\ UNCHANGED <<pipeVars, plan, sem, pure, link, loops, wb>>

\* _update_entity_data: the loop body for the next key of criteria_to_process
AggCriterion ==
    /\ agg.phase = "merge"
    /\ agg.todo # <<>>
    /\ \E instances \in InstanceLists, llm \in LlmRuns :
          LET cid == Head(agg.todo)
              r == update_criterion(agg.criteria, cid, instances, llm)
          IN agg' = [agg EXCEPT
                 !.criteria = r.criteria,
                 !.todo = Tail(@),
                 !.phase = IF Tail(agg.todo) = <<>> THEN "criteria" ELSE "merge",
                 !.last = [op |-> "criterion", cid |-> cid,
                           existed |-> ExistingIndex(agg.criteria, cid) > 0,
                           exhausted |-> r.exhausted, calls |-> r.calls,
                           npairs |-> r.npairs, before |-> <<>>]]
    /\ UNCHANGED <<pipeVars, plan, sem, pure, link, loops, wb>>

\* aggregate_entity_summaries for the entity, with _update_entity_summary
AggSummary ==
    /\ agg.phase = "summary"
    /\ \E record_summaries \in RecordSummaryLists, llm \in LlmRuns :
          LET r == aggregate_entity_summary(agg.summary, record_summaries, llm)
          IN agg' = [agg EXCEPT
                 !.summary = r.summary,
                 !.last = [op |-> "summary", cid |-> 0, existed |-> FALSE,
                           exhausted |-> r.exhausted, calls |-> r.calls,
                           npairs |-> Len(summaries_to_aggregate(agg.summary, record_summaries)),
                           before |-> agg.summary]]
    /\ UNCHANGED <<pipeVars, plan, sem, pure, link, loops, wb>>

NextAgg ==
    \/ AggBegin
    \/ AggCriterion
    \/ AggSummary

SpecAgg == InitAgg /\ [][NextAgg]_vars


-----------------------------------------------------------------------------
(* Claims checked under SpecAgg *)

IdsOf(criteria) == [k \in DOMAIN criteria |-> criteria[k].id]

\* C5: an aggregation pass leaves at most one entry per criterion id in
\* data.criteria: an entry with the id is updated at its place in the list, and the
\* list grows, by one entry at its end, only when no entry had the id.
C5_OneEntryPerCriterion ==
    [][agg.phase = "merge" =>
          LET cid == Head(agg.todo) IN
          /\ NoDuplicateIds(agg'.criteria)
          /\ SubSeq(IdsOf(agg'.criteria), 1, Len(agg.criteria)) = IdsOf(agg.criteria)
          /\ Len(agg'.criteria) <= Len(agg.criteria) + 1
          /\ Len(agg'.criteria) > Len(agg.criteria)
                => \A k \in DOMAIN agg.criteria : agg.criteria[k].id # cid]_vars

\* C5 witness: a pass has rewritten the entry of criterion 1, which the entity had,
\* and the list holds both criteria once.
C5_Witness ==
    /\ agg.last.op = "criterion" /\ agg.last.cid = 1
    /\ agg.last.existed /\ agg.last.npairs >= 2
    /\ Len(agg.criteria) = 2

\* C6: when the merge of a criterion fails on every attempt, the entry the entity
\* had for that criterion keeps its text and its evaluation.
C6_ExhaustedKeepsEntry ==
    [][(agg.phase = "merge" /\ agg'.last.exhausted) =>
          LET k == ExistingIndex(agg.criteria, Head(agg.todo))
          IN k > 0 => agg'.criteria[k] = agg.criteria[k]]_vars

\* C7 as stated: when the merge of the entity summary fails on every attempt, an
\* entity whose summary was not the empty string keeps that very summary, and the
\* summary does not become the empty string.
C7_ExhaustedKeepsSummary ==
    [][(agg.phase = "summary" /\ agg'.last.exhausted) =>
          /\ agg.summary # <<>> => agg'.summary = agg.summary
          /\ agg'.summary # <<>>]_vars

\* C7 amended: when the merge of the entity summary fails on every attempt, an
\* entity whose summary had non-whitespace content keeps that summary with its
\* leading and trailing whitespace removed, and the summary does not become the
\* empty string.
C7_ExhaustedKeepsStrippedSummary ==
    [][(agg.phase = "summary" /\ agg'.last.exhausted) =>
          /\ strip(agg.summary) # <<>> => agg'.summary = strip(agg.summary)
          /\ agg'.summary # <<>>]_vars

\* C7 witness: a summary merge has exhausted its retries on an entity whose summary
\* had trailing whitespace, and the entity holds the stripped summary.
C7_Witness ==
    /\ agg.last.op = "summary" /\ agg.last.exhausted
    /\ agg.last.before = <<"a", SP>>
    /\ agg.summary = <<"a">>


-----------------------------------------------------------------------------
(* SpecSem: the semaphore-guarded stages and their retry loops *)

\* units of work handed to asyncio.gather in one stage
SemUnits == 3
\* largest concurrency limit a stage is configured with
SemMaxLimit == 2

Units == 1..SemUnits

\* download_with_semaphore, process_file_with_semaphore, sem_protected_process_record
Stages == {"download", "upload", "recognize"}

\* positions of a unit inside the `async with semaphore` block
Inside == {"delay", "probe", "try", "sleep"}

InsideCount(s) == Cardinality({ u \in Units : s.pc[u] \in Inside })

\* where a unit is right after it has entered the block
FirstStep(stage) ==
    IF stage = "download" THEN "delay"        \* await asyncio.sleep(request_delay)
    ELSE IF stage = "upload" THEN "probe"     \* os.path.exists, get_audio_metadata
    ELSE "try"

\* a retry sleep that gives the permit back
ValueWhileSleeping_Released(value) == value + 1

\* await asyncio.sleep(...) between attempts is inside the block: the permit is kept
ValueWhileSleeping(value) == value

InitSem ==
    /\ PipeIdle
    /\ plan = IdlePlan
    /\ agg = IdleAgg
    /\ pure = IdlePure
    /\ link = IdleLink
    /\ loops = IdleLoops
    /\ wb = IdleWb
    /\ \E stage \in Stages, limit \in 1..SemMaxLimit :
          sem = [phase |-> "run", stage |-> stage, limit |-> limit, value |-> limit,
                 pc |-> [u \in Units |-> "wait"],
                 attempt |-> [u \in Units |-> 0]]

\* async with semaphore: __aenter__ takes a permit when one is free
SemAcquire ==
    /\ sem.phase = "run"
    /\ \E u \in Units :
          /\ sem.pc[u] = "wait"
          /\ sem.value > 0
          /\ sem' = [sem EXCEPT !.value = @ - 1, !.pc[u] = FirstStep(sem.stage)]
    /\ UNCHANGED <<pipeVars, plan, agg, pure, link, loops, wb>>

\* download_with_semaphore: the request_delay sleep before the first attempt ends
SemDelayDone ==
    /\ sem.phase = "run"
    /\ \E u \in Units :
          /\ sem.pc[u] = "delay"
          /\ sem' = [sem EXCEPT !.pc[u] = "try"]
    /\ UNCHANGED <<pipeVars, plan, agg, pure, link, loops, wb>>

\* process_single_audio_file: a missing file or a metadata error returns at once
SemProbe ==
    /\ sem.phase = "run"
    /\ \E u \in Units, ok \in BOOLEAN :
          /\ sem.pc[u] = "probe"
          /\ sem' = IF ok THEN [sem EXCEPT !.pc[u] = "try"]
                    ELSE [sem EXCEPT !.pc[u] = "done", !.value = @ + 1]
    /\ UNCHANGED <<pipeVars, plan, agg, pure, link, loops, wb>>

\* one attempt of the retry loop: for attempt in range(retries)
SemAttempt ==
    /\ sem.phase = "run"
    /\ \E u \in Units, ok \in BOOLEAN :
          /\ sem.pc[u] = "try"
          /\ sem' = IF ok \/ sem.attempt[u] >= Retries - 1
                    THEN [sem EXCEPT !.pc[u] = "done", !.value = @ + 1]
                    ELSE [sem EXCEPT !.pc[u] = "sleep", !.value = ValueWhileSleeping(@)]
    /\ UNCHANGED <<pipeVars, plan, agg, pure, link, loops, wb>>

\* the sleep between two attempts ends
SemWake ==
    /\ sem.phase = "run"
    /\ \E u \in Units :
          /\ sem.pc[u] = "sleep"
          /\ sem' = [sem EXCEPT !.pc[u] = "try", !.attempt[u] = @ + 1]
    /\ UNCHANGED <<pipeVars, plan, agg, pure, link, loops, wb>>

NextSem ==
    \/ SemAcquire
    \/ SemDelayDone
    \/ SemProbe
    \/ SemAttempt
    \/ SemWake

SpecSem == InitSem /\ [][NextSem]_vars

\* C10: in each of the three guarded stages the units inside the guarded section,
\* sleeping ones included, are never more than the configured limit.
C10_LimitRespected ==
    sem.phase = "run" => (InsideCount(sem) <= sem.limit /\ sem.value >= 0)

\* C10 witness: the section is full, one unit inside sleeps between two attempts and
\* another unit waits at the semaphore.
C10_Witness ==
    /\ sem.phase = "run"
    /\ InsideCount(sem) = sem.limit
    /\ \E u \in Units : sem.pc[u] = "sleep"
    /\ \E u \in Units : sem.pc[u] = "wait"


-----------------------------------------------------------------------------
(* SpecDialog: dialog_builder.build_dialog_from_response *)

\* utterances in one recognition response
MaxUtterances == 3

NL == "\n"
COLON == ": "

\* response.results: channel, start time, and the transcripts of the alternatives
\* joined by spaces (before strip)
UtteranceTexts == {<<>>, <<"a">>, <<"b", SP>>}
Utterances == [channel : {0, 1}, start : {1, 2, 3}, text : UtteranceTexts]
Responses == UNION { [1..n -> Utterances] : n \in 0..MaxUtterances }

\* sorted() is stable: an element goes after the elements whose key is not greater
RECURSIVE InsertByStart(_, _)
InsertByStart(q, u) ==
    IF q = <<>> THEN <<u>>
    ELSE IF q[Len(q)].start <= u.start THEN Append(q, u)
    ELSE Append(InsertByStart(SubSeq(q, 1, Len(q) - 1), u), q[Len(q)])

RECURSIVE SortFrom(_, _, _)
SortFrom(q, k, acc) ==
    IF k > Len(q) THEN acc ELSE SortFrom(q, k + 1, InsertByStart(acc, q[k]))

\* a builder that takes the results in the order of the response
sorted_results_AsGiven(q) == q

\* sorted(response.results, key=start_time)
sorted_results(q) == SortFrom(q, 1, <<>>)

NoChannel == -1

\* the loop over results: dialog, last_channel, current_message (<<>> is None)
RECURSIVE BuildMessages(_, _, _, _, _)
BuildMessages(results, k, dialog, last_channel, current_message) ==
    IF k > Len(results)
    THEN IF current_message # <<>> THEN dialog \o current_message ELSE dialog
    ELSE LET channel == results[k].channel
             text == strip(results[k].text)
         IN IF text = <<>>
            THEN BuildMessages(results, k + 1, dialog, last_channel, current_message)
            ELSE IF channel = last_channel
            THEN BuildMessages(results, k + 1, dialog, last_channel,
                     <<[current_message[1] EXCEPT !.text = @ \o <<SP>> \o text]>>)
            ELSE BuildMessages(results, k + 1,
                     IF current_message # <<>> THEN dialog \o current_message ELSE dialog,
                     channel, <<[channel |-> channel, text |-> text]>>)

\* f"{message['channel']}: {message['text']}"
FormatLine(message) == <<ToString(message.channel), COLON>> \o message.text

\* "\n".join(lines)
RECURSIVE JoinLines(_)
JoinLines(lines) ==
    IF lines = <<>> THEN <<>>
    ELSE IF Len(lines) = 1 THEN lines[1]
    ELSE lines[1] \o <<NL>> \o JoinLines(Tail(lines))

build_dialog_from_response(response) ==
    LET dialog == BuildMessages(sorted_results(response), 1, <<>>, NoChannel, <<>>)
    IN JoinLines([k \in DOMAIN dialog |-> FormatLine(dialog[k])])

InitDialog ==
    /\ PipeIdle
    /\ link = IdleLink
    /\ loops = IdleLoops
    /\ wb = IdleWb
    /\ plan = IdlePlan
    /\ agg = IdleAgg
    /\ sem = IdleSem
    /\ \E response \in Responses :
          pure = [phase |-> "in", fn |-> "dialog", response |-> response,
                  status |-> "uploaded", dialogue |-> <<>>]

\* process_record marking every record 'recognized'
RecognizedRecord_AlwaysRecognized(raw_data) ==
    [status |-> "recognized", dialogue |-> build_dialog_from_response(raw_data)]

\* process_record once recognize_speech has returned a response: the status and
\* the dialogue it puts into the record (`not dialogue` is true for "" only)
RecognizedRecord(raw_data) ==
    LET dialogue == build_dialog_from_response(raw_data)
    IN [status |-> IF dialogue = <<>> THEN "empty" ELSE "recognized",
        dialogue |-> dialogue]

\* process_record from build_dialog_from_response(raw_data) to return record
DialogBuild ==
    /\ pure.phase = "in"
    /\ pure.fn = "dialog"
    /\ pure' = [pure EXCEPT !.phase = "out",
                            !.status = RecognizedRecord(pure.response).status,
                            !.dialogue = RecognizedRecord(pure.response).dialogue]
    /\ UNCHANGED <<pipeVars, plan, agg, sem, link, loops, wb>>

NextDialog == DialogBuild

SpecDialog == InitDialog /\ [][NextDialog]_vars

\* ---- the reference the transcript is compared with

\* place of the k-th utterance in chronological order, equal times in given order
RefPlace(q, k) ==
    1 + Cardinality({ j \in DOMAIN q :
                         \/ q[j].start < q[k].start
                         \/ q[j].start = q[k].start /\ j < k })

RefSorted(q) == [n \in DOMAIN q |-> q[CHOOSE k \in DOMAIN q : RefPlace(q, k) = n]]

\* the runs of consecutive utterances on one channel: first and last index
RefRunStarts(q) == { k \in DOMAIN q : k = 1 \/ q[k].channel # q[k - 1].channel }
RefRunEnd(q, k) ==
    CHOOSE e \in k..Len(q) :
        /\ \A j \in k..e : q[j].channel = q[k].channel
        /\ e = Len(q) \/ q[e + 1].channel # q[k].channel

RECURSIVE RefJoin(_, _, _)
RefJoin(q, k, e) ==
    IF k = e THEN strip(q[k].text)
    ELSE strip(q[k].text) \o <<SP>> \o RefJoin(q, k + 1, e)

RECURSIVE RefText(_, _)
RefText(q, k) ==
    IF k > Len(q) THEN <<>>
    ELSE LET e == RefRunEnd(q, k)
             line == <<ToString(q[k].channel), COLON>> \o RefJoin(q, k, e)
         IN IF e = Len(q) THEN line ELSE line \o <<NL>> \o RefText(q, e + 1)

RefTranscript(q) == RefText(RefSorted(q), 1)

\* C12 as stated: the transcript is the one line per maximal run of consecutive
\* utterances on one channel, in chronological order, texts joined by spaces, lines
\* '<channel>: <text>' joined by newlines, over all the utterances of the response.
C12_TranscriptOfAllUtterances ==
    pure.phase = "out" /\ pure.fn = "dialog"
        => pure.dialogue = RefTranscript(pure.response)

\* C12 amended: the same over the utterances whose text is not empty after strip;
\* the utterances with an empty text are left out before the runs are formed.
C12_TranscriptOfSpokenUtterances ==
    pure.phase = "out" /\ pure.fn = "dialog"
        => pure.dialogue =
              RefTranscript(SelectSeq(pure.response, LAMBDA u : strip(u.text) # <<>>))

\* C12 witness: (0,1,a), (1,2,''), (0,3,'b ') gives '0: a b': the empty utterance
\* of channel 1 does not split the run of channel 0.
C12_Witness ==
    /\ pure.phase = "out" /\ pure.fn = "dialog"
    /\ pure.response = <<[channel |-> 0, start |-> 1, text |-> <<"a">>],
                         [channel |-> 1, start |-> 2, text |-> <<>>],
                         [channel |-> 0, start |-> 3, text |-> <<"b", SP>>]>>
    /\ pure.dialogue = <<"0", COLON, "a", SP, "b">>


\* C19: for a record whose recognition returned a response, the status is 'empty'
\* exactly when the reconstructed transcript is the empty string and 'recognized'
\* otherwise, and the dialogue put into the record is the reconstructed transcript.
C19_StatusFollowsTranscript ==
    (pure.phase = "out" /\ pure.fn = "dialog") =>
        /\ pure.status \in {"empty", "recognized"}
        /\ (pure.status = "empty") <=> (build_dialog_from_response(pure.response) = <<>>)
        /\ pure.dialogue = build_dialog_from_response(pure.response)

\* a response that has utterances, none with text, gave status 'empty'
C19_Witness ==
    /\ pure.phase = "out"
    /\ pure.fn = "dialog"
    /\ Len(pure.response) > 0
    /\ pure.status = "empty"
    /\ pure.dialogue = <<>>

-----------------------------------------------------------------------------
(* SpecMerge: one criterion merge and one summary merge as functions of their inputs *)

MergeEvals == {None, <<400>>, <<500>>}
MergePairs == [text : {<<>>, <<"a">>}, evaluation : MergeEvals]
MergeInstanceLists == UNION { [1..n -> MergePairs] : n \in 1..MaxInstances }

\* the entity's data.criteria before the merge: empty, or one entry of criterion 1
MergeCriteria ==
    {<<>>} \cup { <<[id |-> 1, text |-> x.text, evaluation |-> x.evaluation]>> : x \in MergePairs }

InitMerge ==
    /\ PipeIdle
    /\ link = IdleLink
    /\ loops = IdleLoops
    /\ wb = IdleWb
    /\ plan = IdlePlan
    /\ agg = IdleAgg
    /\ sem = IdleSem
    /\ \/ \E criteria \in MergeCriteria, instances \in MergeInstanceLists, llm \in LlmRuns :
             pure = [phase |-> "in", fn |-> "criterion", criteria |-> criteria,
                     instances |-> instances, llm |-> llm]
       \/ \E summary \in EntitySummaries, record_summaries \in RecordSummaryLists,
             llm \in LlmRuns :
             pure = [phase |-> "in", fn |-> "summary", summary |-> summary,
                     record_summaries |-> record_summaries, llm |-> llm]

\* _update_entity_data for criteria_to_process = {1: instances}
MergeCriterion ==
    /\ pure.phase = "in"
    /\ pure.fn = "criterion"
    /\ pure' = [phase |-> "out", fn |-> "criterion", criteria |-> pure.criteria,
                instances |-> pure.instances, llm |-> pure.llm,
                result |-> update_criterion(pure.criteria, 1, pure.instances, pure.llm)]
    /\ UNCHANGED <<pipeVars, plan, agg, sem, link, loops, wb>>

\* aggregate_entity_summaries for one entity and its records
MergeSummary ==
    /\ pure.phase = "in"
    /\ pure.fn = "summary"
    /\ pure' = [phase |-> "out", fn |-> "summary", summary |-> pure.summary,
                record_summaries |-> pure.record_summaries, llm |-> pure.llm,
                result |-> aggregate_entity_summary(pure.summary, pure.record_summaries,
                                                    pure.llm)]
    /\ UNCHANGED <<pipeVars, plan, agg, sem, link, loops, wb>>

NextMerge ==
    \/ MergeCriterion
    \/ MergeSummary

SpecMerge == InitMerge /\ [][NextMerge]_vars

\* ---- what contributes to a merge, read off the inputs

\* the (text, evaluation) pairs with a non-empty text: the entity's entry, then the
\* instances of the records
Contributing(criteria, instances) ==
    SelectSeq([k \in DOMAIN criteria |->
                  [text |-> criteria[k].text, evaluation |-> criteria[k].evaluation]]
              \o instances,
              LAMBDA x : x.text # <<>>)

NonNullEvals(pairs) ==
    LET e == SelectSeq(pairs, LAMBDA x : x.evaluation # None)
    IN [k \in DOMAIN e |-> e[k].evaluation[1]]

MergedEntry == pure.result.criteria[1]

\* C13: when two or more pairs contribute to a criterion merge, the evaluation of
\* the entry is the arithmetic mean of the non-null evaluations of the contributing
\* pairs, and it is null exactly when all of them are null.
C13_MeanOfContributing ==
    (pure.phase = "out" /\ pure.fn = "criterion"
        /\ Len(Contributing(pure.criteria, pure.instances)) >= 2)
    => LET evals == NonNullEvals(Contributing(pure.criteria, pure.instances))
       IN /\ (MergedEntry.evaluation = None) <=> (evals = <<>>)
          /\ evals # <<>> => MergedEntry.evaluation[1] * Len(evals) = SeqSum(evals)


\* the summaries with non-whitespace content: the entity's, then the records'
ContributingSummaries(summary, record_summaries) ==
    SelectSeq(<<summary>> \o record_summaries, LAMBDA t : strip(t) # <<>>)

\* the criterion part of C14: one contributing pair is copied without a request to
\* the LLM, no contributing pair leaves data.criteria as it was
C14_CriterionPart ==
    (pure.phase = "out" /\ pure.fn = "criterion") =>
        LET pairs == Contributing(pure.criteria, pure.instances) IN
        /\ Len(pairs) = 1 =>
              /\ pure.result.calls = 0
              /\ Len(pure.result.criteria) = 1
              /\ MergedEntry.id = 1
              /\ MergedEntry.text = pairs[1].text
              /\ MergedEntry.evaluation = pairs[1].evaluation
        /\ Len(pairs) = 0 => pure.result.criteria = pure.criteria

\* C14 as stated: with exactly one contributing pair (or exactly one non-empty
\* summary) no request goes to the summarization collaborator and the result equals
\* that pair (that summary) unchanged; with no contributing pair the entry is not
\* modified.
C14_SingleContributionCopied ==
    /\ C14_CriterionPart
    /\ (pure.phase = "out" /\ pure.fn = "summary") =>
          LET one == ContributingSummaries(pure.summary, pure.record_summaries) IN
          Len(one) = 1 => (pure.result.calls = 0 /\ pure.result.summary = one[1])

\* C14 amended: the same, the one contributing summary being stored with its leading
\* and trailing whitespace removed.
C14_SingleContributionCopiedStripped ==
    /\ C14_CriterionPart
    /\ (pure.phase = "out" /\ pure.fn = "summary") =>
          LET one == ContributingSummaries(pure.summary, pure.record_summaries) IN
          Len(one) = 1 => (pure.result.calls = 0 /\ pure.result.summary = strip(one[1]))

\* C14 witness: the only summary with content is that of a record, 'b ', next to an
\* empty one; the entity gets 'b' and no request was made.
C14_Witness ==
    /\ pure.phase = "out" /\ pure.fn = "summary"
    /\ pure.summary = <<SP>>
    /\ pure.record_summaries = <<<<>>, <<"b", SP>>>>
    /\ pure.result.summary = <<"b">>
    /\ pure.result.calls = 0


-----------------------------------------------------------------------------
(* SpecLink: the users and entities a call row refers to, steps 3-8 for one portal *)

\* PORTAL_USER_ID values of the calls (0: the call has none)
LinkUserIds == {1, 2}
\* CRM entities of the calls, as (crm_entity_type, entity_id) keys (0: none)
LinkEntityKeys == {1}
LinkCallIds == {"c1", "c2"}

\* the batch that comes out of step 2
LinkBatches ==
    { b \in SUBSET [id : LinkCallIds, user_id : LinkUserIds \cup {0},
                    entity : LinkEntityKeys \cup {0}] :
          b # {} /\ \A x, y \in b : x.id = y.id => x = y }

InitLink ==
    /\ PipeIdle
    /\ plan = IdlePlan
    /\ agg = IdleAgg
    /\ sem = IdleSem
    /\ pure = IdlePure
    /\ loops = IdleLoops
    /\ wb = IdleWb
    /\ \E recs \in LinkBatches, users \in SUBSET LinkUserIds, active \in SUBSET LinkUserIds :
          link = [phase |-> "entities", recs |-> recs,
                  entities |-> {}, users |-> users, active |-> active,
                  fetched |-> {}, calls |-> {}, outcome |-> "none"]

\* Steps 3-4: fetch_entities_for_records and update_entities_in_database; an entity
\* that could not be fetched or a rolled back upsert leaves the table as it was
LinkEntities ==
    /\ link.phase = "entities"
    /\ \E got \in SUBSET { r.entity : r \in { x \in link.recs : x.entity # 0 } }, dbOk \in BOOLEAN :
          link' = [link EXCEPT !.phase = "users_fetch",
                               !.entities = IF dbOk THEN @ \cup got ELSE @]
    /\ UNCHANGED <<pipeVars, plan, agg, sem, pure, loops, wb>>

\* add_users_to_records: the users of the batch among the active users of the
\* portal; [] when the request fails or returns nothing
add_users_to_records(recs, active, fetchOk) ==
    LET user_ids == { r.user_id : r \in { x \in recs : x.user_id # 0 } }
    IN IF user_ids = {} \/ ~fetchOk \/ active = {} THEN {}
       ELSE { u \in active : u \in user_ids }

\* Step 5
LinkUsersFetch ==
    /\ link.phase = "users_fetch"
    /\ \E fetchOk \in BOOLEAN :
          link' = [link EXCEPT !.phase = "users_upsert",
                               !.fetched = add_users_to_records(link.recs, link.active, fetchOk)]
    /\ UNCHANGED <<pipeVars, plan, agg, sem, pure, loops, wb>>

\* Step 6: update_users_in_database; upsert_users_to_db rolls back on an error
LinkUsersUpsert ==
    /\ link.phase = "users_upsert"
    /\ \E dbOk \in BOOLEAN :
          link' = [link EXCEPT !.phase = "records",
                               !.users = IF dbOk THEN @ \cup link.fetched ELSE @]
    /\ UNCHANGED <<pipeVars, plan, agg, sem, pure, loops, wb>>

\* FOREIGN KEY (user_id) REFERENCES <portal>_users(id)
UserKeysHold(recs, users) == \A r \in recs : r.user_id # 0 => r.user_id \in users

\* upsert_records_to_db: the entity is looked up and linked only when it is found;
\* user_id is written as the record gives it
LinkRows(recs, entities) ==
    { [id |-> r.id, user_id |-> r.user_id,
       entity_id |-> IF r.entity # 0 /\ r.entity \in entities THEN r.entity ELSE 0] : r \in recs }

\* Step 8: upsert_records_to_db for the portal; any error rolls the batch back
LinkRecords ==
    /\ link.phase = "records"
    /\ \E dbOk \in BOOLEAN :
          link' = IF ~UserKeysHold(link.recs, link.users)
                  THEN [link EXCEPT !.phase = "done", !.outcome = "rejected"]
                  ELSE IF ~dbOk
                  THEN [link EXCEPT !.phase = "done", !.outcome = "error"]
                  ELSE [link EXCEPT !.phase = "done", !.outcome = "committed",
                                    !.calls = LinkRows(link.recs, link.entities)]
    /\ UNCHANGED <<pipeVars, plan, agg, sem, pure, loops, wb>>

NextLink ==
    \/ LinkEntities
    \/ LinkUsersFetch
    \/ LinkUsersUpsert
    \/ LinkRecords

SpecLink == InitLink /\ [][NextLink]_vars

\* C15: the user and the entity a written call row refers to are in the portal's
\* users and entities tables, and no batch is rejected because a user or an entity
\* it refers to is missing.
C15_ReferencedRowsExist ==
    link.phase = "done" =>
        /\ link.outcome # "rejected"
        /\ \A row \in link.calls :
              /\ row.user_id # 0 => row.user_id \in link.users
              /\ row.entity_id # 0 => row.entity_id \in link.entities


-----------------------------------------------------------------------------
(* SpecLoops: the control flow of the three service loops. One action runs the
   body of a loop once, with the outcomes its stages can have; one lets its
   asyncio.sleep pass. *)

\* cycles each loop may start
MaxLoopCycles == 2

\* what a batch write did: whether the store failed, whether rows of the batch
\* stayed committed, whether the exception reached the caller
NoWrite == [made |-> FALSE, error |-> FALSE, committed |-> FALSE, raised |-> FALSE]

\* upsert_records_to_db: commit, or rollback and return []
UpsertOutcome(dbOk) ==
    [made |-> TRUE, error |-> ~dbOk, committed |-> dbOk, raised |-> FALSE]

\* upload_recognized_dialogs: commit, or rollback and raise
UploadOutcome(dbOk) ==
    [made |-> TRUE, error |-> ~dbOk, committed |-> dbOk, raised |-> ~dbOk]

\* a loop before its first cycle
LoopStart ==
    [pc |-> "cycle", n |-> 0, ended |-> "none", slept |-> FALSE, delay |-> "none",
     write |-> NoWrite]

InitLoops ==
    /\ PipeIdle
    /\ plan = IdlePlan
    /\ agg = IdleAgg
    /\ sem = IdleSem
    /\ pure = IdlePure
    /\ link = IdleLink
    /\ wb = IdleWb
    /\ loops = [acq |-> LoopStart, rec |-> LoopStart, an |-> LoopStart]

\* the frame of a SpecLoops action
LoopsFrame == UNCHANGED <<pipeVars, plan, agg, sem, pure, link, wb>>

\* bitrix24/main.main, one pass of the while body. Nothing in it is wrapped in
\* try: a stage that raises (get_db_client in step 1 or step 8) ends the loop;
\* per-call failures and a rolled back step 8 do not
AcqLoopOutcomes == {"ok", "item_failed", "upsert_error", "stage_raised"}

AcqLoopCycle ==
    /\ loops.acq.pc = "cycle"
    /\ loops.acq.n < MaxLoopCycles
    /\ \E out \in AcqLoopOutcomes :
          loops' = [loops EXCEPT !.acq =
              [pc |-> IF out = "stage_raised" THEN "terminated" ELSE "sleep",
               n |-> @.n + 1,
               ended |-> IF out = "ok" THEN "ok" ELSE "failed",
               slept |-> FALSE,
               delay |-> "none",
               write |-> CASE out = "upsert_error" -> UpsertOutcome(FALSE)
                           [] out = "stage_raised" -> NoWrite
                           [] OTHER -> UpsertOutcome(TRUE)]]
    /\ LoopsFrame

\* await asyncio.sleep(delay)
AcqLoopSleep ==
    /\ loops.acq.pc = "sleep"
    /\ loops' = [loops EXCEPT !.acq.pc = "cycle", !.acq.slept = TRUE,
                              !.acq.delay = "configured"]
    /\ LoopsFrame

\* dialogue_recognition.main around process_data: process_data re-raises, main
\* catches and sleeps 30 seconds instead of sleep_time
RecLoopOutcomes == {"ok", "nothing", "fetch_error", "upload_error"}

RecLoopCycle ==
    /\ loops.rec.pc = "cycle"
    /\ loops.rec.n < MaxLoopCycles
    /\ \E out \in RecLoopOutcomes :
          loops' = [loops EXCEPT !.rec =
              [pc |-> "sleep",
               n |-> @.n + 1,
               ended |-> IF out \in {"ok", "nothing"} THEN "ok" ELSE "failed",
               slept |-> FALSE,
               delay |-> "none",
               write |-> CASE out = "ok" -> UploadOutcome(TRUE)
                           [] out = "upload_error" -> UploadOutcome(FALSE)
                           [] OTHER -> NoWrite]]
    /\ LoopsFrame

RecLoopSleep ==
    /\ loops.rec.pc = "sleep"
    /\ loops' = [loops EXCEPT !.rec.pc = "cycle", !.rec.slept = TRUE,
                              !.rec.delay = IF loops.rec.ended = "ok"
                                            THEN "configured" ELSE "thirty"]
    /\ LoopsFrame

\* dialog_analysis.main, one pass of the while body: each try block logs the
\* error and continues, which goes back to the top of the loop
AnLoopOutcomes == {"ok", "fail_1_3", "upload_error", "fail_4_6", "fail_7_8", "fail_9"}

AnLoopCycle ==
    /\ loops.an.pc = "cycle"
    /\ loops.an.n < MaxLoopCycles
    /\ \E out \in AnLoopOutcomes :
          loops' = [loops EXCEPT !.an =
              [pc |-> IF out = "ok" THEN "sleep" ELSE "cycle",
               n |-> @.n + 1,
               ended |-> IF out = "ok" THEN "ok" ELSE "failed",
               slept |-> FALSE,
               delay |-> "none",
               write |-> CASE out = "fail_1_3" -> NoWrite
                           [] out = "upload_error" -> UploadOutcome(FALSE)
                           [] OTHER -> UploadOutcome(TRUE)]]
    /\ LoopsFrame

AnLoopSleep ==
    /\ loops.an.pc = "sleep"
    /\ loops' = [loops EXCEPT !.an.pc = "cycle", !.an.slept = TRUE,
                              !.an.delay = "configured"]
    /\ LoopsFrame

NextLoops ==
    \/ AcqLoopCycle
    \/ AcqLoopSleep
    \/ RecLoopCycle
    \/ RecLoopSleep
    \/ AnLoopCycle
    \/ AnLoopSleep

SpecLoops == InitLoops /\ [][NextLoops]_vars

LoopNames == {"acq", "rec", "an"}

\* C16: when the store fails while a batch is written, no row of the batch is
\* committed and the error reaches the caller.
C16_StoreErrorRolledBackAndRaised ==
    \A l \in LoopNames :
        loops[l].write.error => ~loops[l].write.committed /\ loops[l].write.raised

\* C17: no service loop terminates on a stage failure, and every cycle after the
\* first starts only after the loop has slept.
C17_LoopSleepsThenContinues ==
    [][\A l \in LoopNames :
          /\ loops'[l].pc # "terminated"
          /\ (loops'[l].n > loops[l].n /\ loops[l].n > 0) => loops[l].slept]_vars


-----------------------------------------------------------------------------
(* SpecRecognize: sem_protected_process_record, the retry loop of
   process_and_store_dialogs around process_record, for one record *)

\* retries=3 in process_data
RecRetries == 3

\* what one call of the recogniser does: a response with text, a response whose
\* transcript is empty, an exception of recognize_speech, or a response that
\* build_dialog_from_response raises on
RecognizerAnswers == {"text", "blank", "raises", "broken"}

\* process_record for one attempt: what it returns (or that an exception leaves
\* it) and whether the recogniser was called. The exception of recognize_speech
\* is caught inside process_record, which returns None
process_record_once(meta, answer) ==
    IF meta # "ok" THEN [ret |-> "none", called |-> FALSE]
    ELSE IF answer = "raises" THEN [ret |-> "none", called |-> TRUE]
    ELSE IF answer = "broken" THEN [ret |-> "exception", called |-> TRUE]
    ELSE IF answer = "blank" THEN [ret |-> "empty", called |-> TRUE]
    ELSE [ret |-> "recognized", called |-> TRUE]

InitRecognize ==
    /\ PipeIdle
    /\ plan = IdlePlan
    /\ agg = IdleAgg
    /\ sem = IdleSem
    /\ link = IdleLink
    /\ loops = IdleLoops
    /\ wb = IdleWb
    /\ \E meta \in {"ok", "incomplete"}, answers \in [1..RecRetries -> RecognizerAnswers] :
          pure = [phase |-> "in", fn |-> "recognize", meta |-> meta, answers |-> answers,
                  attempt |-> 0, calls |-> 0, slept |-> 0, result |-> "pending"]

\* one pass of `for attempt in range(retries)`: return what process_record
\* returns; on an exception sleep request_delay and go on, or give None after
\* the last attempt
RecognizeAttempt ==
    /\ pure.phase = "in"
    /\ pure.fn = "recognize"
    /\ pure.attempt < RecRetries
    /\ LET res == process_record_once(pure.meta, pure.answers[pure.attempt + 1])
           calls == pure.calls + (IF res.called THEN 1 ELSE 0)
       IN pure' =
            IF res.ret # "exception"
            THEN [pure EXCEPT !.phase = "out", !.attempt = @ + 1, !.calls = calls,
                              !.result = res.ret]
            ELSE IF pure.attempt < RecRetries - 1
            THEN [pure EXCEPT !.attempt = @ + 1, !.calls = calls, !.slept = @ + 1]
            ELSE [pure EXCEPT !.phase = "out", !.attempt = @ + 1, !.calls = calls,
                              !.result = "none"]
    /\ UNCHANGED <<pipeVars, plan, agg, sem, link, loops, wb>>

NextRecognize == RecognizeAttempt

SpecRecognize == InitRecognize /\ [][NextRecognize]_vars

\* C20: a record with complete metadata is dropped from the result of the cycle
\* only after `retries` attempts: a recogniser call that raises is attempted again.
C20_FailedRecognitionRetried ==
    (pure.phase = "out" /\ pure.fn = "recognize" /\ pure.meta = "ok" /\ pure.result = "none")
        => pure.attempt = RecRetries


-----------------------------------------------------------------------------
(* SpecGather: aggregate_entity_summaries hands one _update_entity_summary task
   per entity with more than one summary to asyncio.gather *)

\* sum_text_blocks calls that are awaited at this moment
InFlight(s) == Cardinality({ u \in Units : s.pc[u] = "request" })

InitGather ==
    /\ PipeIdle
    /\ plan = IdlePlan
    /\ agg = IdleAgg
    /\ pure = IdlePure
    /\ link = IdleLink
    /\ loops = IdleLoops
    /\ wb = IdleWb
    /\ \E max_concurrent_requests \in 1..SemMaxLimit :
          sem = [phase |-> "gather", limit |-> max_concurrent_requests,
                 pc |-> [u \in Units |-> "task"],
                 attempt |-> [u \in Units |-> 1]]

\* asyncio.gather(*tasks) runs a task up to its first await: the first
\* sum_text_blocks request. max_concurrent_requests is not consulted
GatherStart ==
    /\ sem.phase = "gather"
    /\ \E u \in Units :
          /\ sem.pc[u] = "task"
          /\ sem' = [sem EXCEPT !.pc[u] = "request"]
    /\ UNCHANGED <<pipeVars, plan, agg, pure, link, loops, wb>>

\* the request of one attempt returns or raises: for attempt in range(1, retries + 1)
GatherAttempt ==
    /\ sem.phase = "gather"
    /\ \E u \in Units, ok \in BOOLEAN :
          /\ sem.pc[u] = "request"
          /\ sem' = IF ok \/ sem.attempt[u] >= AggRetries
                    THEN [sem EXCEPT !.pc[u] = "done"]
                    ELSE [sem EXCEPT !.pc[u] = "sleep"]
    /\ UNCHANGED <<pipeVars, plan, agg, pure, link, loops, wb>>

\* await asyncio.sleep(request_delay) ends and the next attempt sends its request
GatherWake ==
    /\ sem.phase = "gather"
    /\ \E u \in Units :
          /\ sem.pc[u] = "sleep"
          /\ sem' = [sem EXCEPT !.pc[u] = "request", !.attempt[u] = @ + 1]
    /\ UNCHANGED <<pipeVars, plan, agg, pure, link, loops, wb>>

NextGather ==
    \/ GatherStart
    \/ GatherAttempt
    \/ GatherWake

SpecGather == InitGather /\ [][NextGather]_vars

\* C21: during aggregate_entity_summaries the summarization requests in flight
\* are never more than max_concurrent_requests.
C21_RequestsWithinLimit ==
    sem.phase = "gather" => InFlight(sem) <= sem.limit


-----------------------------------------------------------------------------
(* SpecWrite: upload_full_data_from_dict(entities_with_aggregated_summaries,
   status='ready') for one table with two records and one entity *)

WbRecordIds == {"r1", "r2"}

\* required_fields
RequiredFields == {"name", "text", "evaluation"}

\* the keys an entry of data['criteria'] may carry
CriterionEntries == {{"name", "text", "evaluation"}, {"name", "text"}}

\* longest criteria list of a record
MaxCriteria == 2

\* record['data']: missing, {}, a dict whose criteria is missing or not a list,
\* or a dict with a criteria list
RecordDatas ==
    { [kind |-> k, criteria |-> <<>>] : k \in {"none", "empty", "nolist"} }
        \cup { [kind |-> "list", criteria |-> c] :
                   c \in UNION { [1..n -> CriterionEntries] : n \in 0..MaxCriteria } }

\* all(field in crit for field in required_fields), for some entry only
all_criteria_ok_Some(criteria) ==
    criteria = <<>> \/ \E k \in DOMAIN criteria : RequiredFields \subseteq criteria[k]

\* all_criteria_ok: every entry has every required field
all_criteria_ok(criteria) ==
    \A k \in DOMAIN criteria : RequiredFields \subseteq criteria[k]

\* upload_records_from_dict for one record: the row after its UPDATE, if any
UpdateRecordRow(row, data, status) ==
    IF data.kind \in {"none", "empty"} THEN row
    ELSE IF data.kind # "list" THEN [row EXCEPT !.data = data]
    ELSE IF all_criteria_ok(data.criteria) THEN [row EXCEPT !.data = data, !.status = status]
    ELSE [row EXCEPT !.data = data]

NoValue == "null"

\* the entity as the aggregation passes leave it in the dict
ComputedEntities == [data : {"empty", "new"}, summary : {NoValue, "merged"}]

\* the row of the entity before the write
StoredEntities ==
    { [exists |-> FALSE, data |-> NoValue, summary |-> NoValue] }
        \cup [exists : {TRUE}, data : {"old"}, summary : {NoValue, "earlier"}]

\* check_and_insert_entity(table_name, entity_id, entity_data): summary keeps its
\* default None; INSERT when the row is missing, UPDATE otherwise
check_and_insert_entity(erow, entity_data, summary) ==
    [exists |-> TRUE,
     data |-> IF entity_data = "empty" THEN "{}" ELSE entity_data,
     summary |-> summary]

InitWrite ==
    /\ PipeIdle
    /\ plan = IdlePlan
    /\ agg = IdleAgg
    /\ sem = IdleSem
    /\ pure = IdlePure
    /\ link = IdleLink
    /\ loops = IdleLoops
    /\ \E recs \in [WbRecordIds -> RecordDatas], entity \in ComputedEntities,
          erow \in StoredEntities :
          wb = [phase |-> "records", recs |-> recs, entity |-> entity,
                rows |-> [r \in WbRecordIds |-> [status |-> "fixed", data |-> [kind |-> "none", criteria |-> <<>>]]],
                erow |-> erow, before |-> erow, written |-> FALSE]

\* upload_records_from_dict(records_only, status): one transaction for all
\* records; an exception leaves upload_full_data_from_dict before the entities
WbRecords ==
    /\ wb.phase = "records"
    /\ \E dbOk \in BOOLEAN :
          wb' = IF dbOk
                THEN [wb EXCEPT !.phase = "entities",
                                !.rows = [r \in WbRecordIds |->
                                            UpdateRecordRow(wb.rows[r], wb.recs[r], "ready")]]
                ELSE [wb EXCEPT !.phase = "done"]
    /\ UNCHANGED <<pipeVars, plan, agg, sem, pure, link, loops>>

\* the loop over table_data["entities"]: check_and_insert_entity commits by
\* itself; on an error it rolls back and logs
WbEntity ==
    /\ wb.phase = "entities"
    /\ \E dbOk \in BOOLEAN :
          wb' = IF dbOk
                THEN [wb EXCEPT !.phase = "done", !.written = TRUE,
                                !.erow = check_and_insert_entity(wb.erow, wb.entity.data, NoValue)]
                ELSE [wb EXCEPT !.phase = "done"]
    /\ UNCHANGED <<pipeVars, plan, agg, sem, pure, link, loops>>

NextWrite ==
    \/ WbRecords
    \/ WbEntity

SpecWrite == InitWrite /\ [][NextWrite]_vars

\* C22: after the final write the stored summary of the entity is the summary the
\* cycle computed for it, and a stored summary is never replaced by a null value.
C22_SummaryStored ==
    (wb.phase = "done" /\ wb.written) =>
        /\ wb.erow.summary = wb.entity.summary
        /\ wb.before.summary # NoValue => wb.erow.summary # NoValue


\* the record has non-empty data whose criteria is a list in which every entry
\* has name, text and evaluation
CompleteData(d) ==
    /\ d.kind = "list"
    /\ \A k \in 1..Len(d.criteria) : \A f \in {"name", "text", "evaluation"} : f \in d.criteria[k]

C29_ReadyImpliesRollupStored ==
    (\E r \in WbRecordIds : wb.rows[r].status = "ready") => wb.written


\* C28: a record whose criterion instances were merged into the roll-up that the
\* cycle stored no longer has status 'fixed', so that the next cycle does not
\* fetch it and merge it again.
C28_MergedRecordLeavesFixed ==
    wb.written =>
        \A r \in WbRecordIds :
            (wb.recs[r].kind = "list" /\ wb.recs[r].criteria # <<>>)
                => wb.rows[r].status # "fixed"


-----------------------------------------------------------------------------
(* SpecUpload: the transaction of upload_recognized_dialogs over the tables of
   the portals, one UPDATE per table and one commit at the end *)

\* the row of a portal's table that the cycle fetched
UploadedRow(p) ==
    { [id |-> add_call_prefix(c), status |-> "uploaded", meta |-> "ok"] : c \in Remote(p) }

\* what the recognition cycle hands over for a table: nothing, or its row as
\* 'recognized' or 'empty'
DialogueBatches(p) ==
    { {} } \cup { { [id |-> r.id, status |-> st] : r \in UploadedRow(p) } :
                     st \in {"recognized", "empty"} }

\* orders in which dialogues_dict.items() yields the tables
TableOrders == { <<"p1", "p2">>, <<"p2", "p1">> }

NoTable == "none"

InitUpload ==
    /\ PipeIdle
    /\ plan = IdlePlan
    /\ agg = IdleAgg
    /\ sem = IdleSem
    /\ pure = IdlePure
    /\ link = IdleLink
    /\ loops = IdleLoops
    /\ \E data \in { d \in [Portals -> SUBSET UNION { UNION DialogueBatches(p) : p \in Portals }] :
                        \A p \in Portals : d[p] \in DialogueBatches(p) },
          order \in TableOrders, failing \in Portals \cup {NoTable}, commitOk \in BOOLEAN :
          wb = [phase |-> "dialogs", data |-> data, order |-> order, failing |-> failing,
                commitOk |-> commitOk, i |-> 1,
                committed |-> [p \in Portals |-> UploadedRow(p)],
                pending |-> [p \in Portals |-> UploadedRow(p)],
                raised |-> FALSE]

\* one pass of `for table_name, table_data in dialogues_dict.items()`: tables
\* without records are skipped; execute_values changes the rows inside the open
\* transaction; an exception rolls everything back and is raised again
UploadTable ==
    /\ wb.phase = "dialogs"
    /\ wb.i <= Len(wb.order)
    /\ LET p == wb.order[wb.i] IN
       wb' = IF wb.data[p] = {} THEN [wb EXCEPT !.i = @ + 1]
             ELSE IF wb.failing = p
             THEN [wb EXCEPT !.phase = "done", !.pending = wb.committed, !.raised = TRUE]
             ELSE [wb EXCEPT !.i = @ + 1,
                             !.pending[p] = UpdateStatus(wb.pending[p], wb.data[p])]
    /\ UNCHANGED <<pipeVars, plan, agg, sem, pure, link, loops>>

\* connection.commit(), or the rollback when it fails
UploadCommit ==
    /\ wb.phase = "dialogs"
    /\ wb.i > Len(wb.order)
    /\ wb' = IF wb.commitOk
             THEN [wb EXCEPT !.phase = "done", !.committed = wb.pending]
             ELSE [wb EXCEPT !.phase = "done", !.pending = wb.committed, !.raised = TRUE]
    /\ UNCHANGED <<pipeVars, plan, agg, sem, pure, link, loops>>

NextUpload ==
    \/ UploadTable
    \/ UploadCommit

SpecUpload == InitUpload /\ [][NextUpload]_vars

\* C24: when the UPDATE of one portal's table fails, the recognised dialogues of
\* the other portals of the same cycle are committed all the same.
C24_OtherPortalsCommitted ==
    (wb.phase = "done" /\ wb.failing # NoTable /\ wb.raised /\ wb.commitOk) =>
        \A q \in Portals \ {wb.failing} :
            wb.committed[q] = UpdateStatus(UploadedRow(q), wb.data[q])

=============================================================================
